---- MODULE Spec2Model ----
(***************************************************************************)
(* Lie-Dar: the multi-modal fusion engine (src/src/logic_engine.py), the   *)
(* rPPG pulse estimator (src/src/bpm_estimator.py), the facial and voice   *)
(* analysers and the two hosts that drive them (src/main.py,               *)
(* src/main_gui.py), as state machines.                                    *)
(*                                                                         *)
(* Numbers.  The program computes in Python floats.  The model computes in *)
(* exact rationals <<n, d>> (d > 0, lowest terms), so that 0.4*30, a       *)
(* renormalised weight 0.3/0.6 or a mean of ten scores is the number the   *)
(* code's formula denotes; float rounding (a few ulp) is not modelled.     *)
(***************************************************************************)
EXTENDS Integers, Sequences, FiniteSets, TLC

\* engine, facial, pulse, voice: the four analysers' objects; app: the host
\* (LieDar or LieDarGUI); ret: the last call and what it returned; inst_log:
\* history variable: the instantaneous honesty values computed since the
\* engine was built or last reset and, where a buffering analyser runs on
\* its own, the statuses ("buffering", "active") its calls returned, with
\* "reset" where it was reset; nops: calls made so far (bounds the run)
VARIABLES engine, facial, pulse, voice, app, ret, inst_log, nops

vars == <<engine, facial, pulse, voice, app, ret, inst_log, nops>>

(***************************************************************************)
(* Exact rational arithmetic: the float operators of the source.           *)
(***************************************************************************)
Abs(x) == IF x < 0 THEN -x ELSE x

RECURSIVE GCD(_, _)
GCD(a, b) == IF b = 0 THEN a ELSE GCD(b, a % b)

\* n/d in lowest terms with a positive denominator (d # 0)
R(n, d) ==
    LET g == GCD(Abs(n), Abs(d))
        s == IF d < 0 THEN -1 ELSE 1
    IN  <<(s * n) \div g, (s * d) \div g>>

RInt(n) == <<n, 1>>
RAdd(x, y) == R(x[1] * y[2] + y[1] * x[2], x[2] * y[2])
RSub(x, y) == R(x[1] * y[2] - y[1] * x[2], x[2] * y[2])
RMul(x, y) == R(x[1] * y[1], x[2] * y[2])
\* x / y for y # 0 (the caller decides what a zero divisor does)
RDiv(x, y) == R(x[1] * y[2], x[2] * y[1])
RLt(x, y) == x[1] * y[2] < y[1] * x[2]
RLe(x, y) == x[1] * y[2] <= y[1] * x[2]
RAbs(x) == <<Abs(x[1]), x[2]>>
RIsZero(x) == x[1] = 0

RMin(x, y) == IF RLt(y, x) THEN y ELSE x

\* the sum of a sequence, added up by halves
RECURSIVE RSum(_)
RSum(s) ==
    IF s = <<>> THEN RInt(0)
    ELSE IF Len(s) = 1 THEN s[1]
    ELSE LET h == Len(s) \div 2
         IN  RAdd(RSum(SubSeq(s, 1, h)), RSum(SubSeq(s, h + 1, Len(s))))

\* np.mean of a non-empty list
RMean(s) == RDiv(RSum(s), RInt(Len(s)))

\* np.clip(x, lo, hi)
clip(x, lo, hi) == IF RLt(x, lo) THEN lo ELSE IF RLt(hi, x) THEN hi ELSE x

(***************************************************************************)
(* LogicEngine                                                             *)
(***************************************************************************)
max_history == 10

\* the constructor's assert: abs(total_weight - 1.0) < 0.01
LogicEngine_accepts(fw, vw, pw) ==
    RLt(RAbs(RSub(RAdd(RAdd(fw, vw), pw), RInt(1))), R(1, 100))

LogicEngine_init(fw, vw, pw) ==
    [facial_weight |-> fw, voice_weight |-> vw, pulse_weight |-> pw,
     honesty_history |-> <<>>]

\* mutant: the voice and pulse weights applied to the wrong inputs
combined_stress_swapped(e, f, v, p) ==
    RAdd(RAdd(RMul(e.facial_weight, clip(f, RInt(0), RInt(100))),
              RMul(e.pulse_weight, clip(v, RInt(0), RInt(100)))),
         RMul(e.voice_weight, clip(p, RInt(0), RInt(100))))

\* combined_stress of the clipped inputs under the engine's weights
combined_stress(e, f, v, p) ==
    RAdd(RAdd(RMul(e.facial_weight, clip(f, RInt(0), RInt(100))),
              RMul(e.voice_weight, clip(v, RInt(0), RInt(100)))),
         RMul(e.pulse_weight, clip(p, RInt(0), RInt(100))))

\* mutant: pop() (the newest) instead of pop(0) (the oldest)
push_history_pop_newest(h, x) ==
    LET a == Append(h, x)
    IN  IF Len(a) > max_history THEN SubSeq(a, 1, max_history) ELSE a

\* append, then pop(0) while longer than max_history
push_history(h, x) ==
    LET a == Append(h, x)
    IN  IF Len(a) > max_history THEN Tail(a) ELSE a

\* mutant: the combined stress is not inverted into honesty
calculate_honesty_score_not_inverted(e, f, v, p) ==
    LET honesty == combined_stress(e, f, v, p)
        h == push_history(e.honesty_history, honesty)
    IN  [engine |-> [e EXCEPT !.honesty_history = h],
         score |-> RMean(h)]

\* calculate_honesty_score: the engine after the call and the smoothed score
calculate_honesty_score(e, f, v, p) ==
    LET honesty == RSub(RInt(100), combined_stress(e, f, v, p))
        h == push_history(e.honesty_history, honesty)
    IN  [engine |-> [e EXCEPT !.honesty_history = h],
         score |-> RMean(h)]

\* mutant: <= 40 instead of < 40
get_alert_level_le(honesty_score) ==
    IF RLe(honesty_score, RInt(40)) THEN "high_stress"
    ELSE IF RLt(honesty_score, RInt(60)) THEN "medium_stress"
    ELSE "low_stress"

get_alert_level(honesty_score) ==
    IF RLt(honesty_score, RInt(40)) THEN "high_stress"
    ELSE IF RLt(honesty_score, RInt(60)) THEN "medium_stress"
    ELSE "low_stress"

\* analyze: the engine after the call and the result dictionary; the
\* component scores are built from the arguments as passed (not clipped)
analyze(e, f, v, p) ==
    LET c == calculate_honesty_score(e, f, v, p)
    IN  [engine |-> c.engine,
         honesty_score |-> c.score,
         alert_level |-> get_alert_level(c.score),
         facial_contribution |-> RMul(f, e.facial_weight),
         voice_contribution |-> RMul(v, e.voice_weight),
         pulse_contribution |-> RMul(p, e.pulse_weight),
         facial_raw |-> f, voice_raw |-> v, pulse_raw |-> p]

\* mutant: reset rebuilds the engine with the default weights
LogicEngine_reset_defaults(e) == LogicEngine_init(R(2, 5), R(3, 10), R(3, 10))

LogicEngine_reset(e) == [e EXCEPT !.honesty_history = <<>>]

\* the value None of an optional argument (no rational has denominator 0)
None == <<0, 0>>

\* mutant: each division uses the sum of the weights as they are by then
update_weights_running_total(e, facial_w, voice_w, pulse_w) ==
    LET fw == IF facial_w # None THEN facial_w ELSE e.facial_weight
        vw == IF voice_w # None THEN voice_w ELSE e.voice_weight
        pw == IF pulse_w # None THEN pulse_w ELSE e.pulse_weight
        total == RAdd(RAdd(fw, vw), pw)
        a == [e EXCEPT !.facial_weight = fw, !.voice_weight = vw,
                       !.pulse_weight = pw]
        f1 == RDiv(fw, total)
        t2 == RAdd(RAdd(f1, vw), pw)
    IN  IF RIsZero(total) \/ RIsZero(t2)
        THEN [engine |-> a, raised |-> TRUE]
        ELSE [engine |-> [a EXCEPT !.facial_weight = f1,
                                   !.voice_weight = RDiv(vw, t2),
                                   !.pulse_weight = RDiv(pw, total)],
              raised |-> FALSE]

\* update_weights: the assignments, then the three divisions by the total.
\* A zero total raises ZeroDivisionError at the first division, after the
\* assignments (raised = TRUE, the assigned weights stay).
update_weights(e, facial_w, voice_w, pulse_w) ==
    LET fw == IF facial_w # None THEN facial_w ELSE e.facial_weight
        vw == IF voice_w # None THEN voice_w ELSE e.voice_weight
        pw == IF pulse_w # None THEN pulse_w ELSE e.pulse_weight
        total == RAdd(RAdd(fw, vw), pw)
        a == [e EXCEPT !.facial_weight = fw, !.voice_weight = vw,
                       !.pulse_weight = pw]
    IN  IF RIsZero(total)
        THEN [engine |-> a, raised |-> TRUE]
        ELSE [engine |-> [a EXCEPT !.facial_weight = RDiv(fw, total),
                                   !.voice_weight = RDiv(vw, total),
                                   !.pulse_weight = RDiv(pw, total)],
              raised |-> FALSE]

(***************************************************************************)
(* The engine on its own: construction, analyze, get_alert_level,          *)
(* update_weights and reset called in any order.                           *)
(***************************************************************************)
MaxOps == 3

\* k thousandths
W(k) == R(k, 1000)

\* constructor arguments tried (thousandths); the assert filters them
CtorArgs ==
    { <<400, 300, 300>>, <<0, 600, 400>>, <<405, 300, 300>>,
      <<-500, 750, 750>>, <<500, 500, 500>> }

\* stress triples passed to analyze (facial, voice, pulse)
StressInputs ==
    { <<30, 25, 20>>, <<0, 50, 100>>, <<30, 50, 100>>, <<150, 50, 100>>,
      <<0, 100, 0>>, <<100, 0, 0>>, <<100, 100, 100>>, <<-10, -10, -10>>,
      <<0, 0, 0>> }

\* update_weights arguments
UpdateArgs ==
    { <<W(0), None, None>>, <<W(0), W(0), W(0)>>, <<W(0), W(600), W(400)>>,
      <<None, W(0), None>>, <<W(1000), None, W(1000)>>,
      <<W(-1000), None, None>> }

\* honesty scores passed to get_alert_level (hundredths)
AlertProbes == { 0, 3999, 4000, 5999, 6000, 10000 }

NoRet == [op |-> "none"]

Weights(e) == <<e.facial_weight, e.voice_weight, e.pulse_weight>>

Analyze(f, v, p) ==
    \E r \in {analyze(engine, f, v, p)} :
        /\ engine' = r.engine
        /\ ret' = [op |-> "analyze", n_before |-> Len(engine.honesty_history),
                   args |-> <<f, v, p>>,
                   honesty_score |-> r.honesty_score,
                   alert_level |-> r.alert_level,
                   facial_raw |-> r.facial_raw, voice_raw |-> r.voice_raw,
                   pulse_raw |-> r.pulse_raw,
                   facial_contribution |-> r.facial_contribution,
                   voice_contribution |-> r.voice_contribution,
                   pulse_contribution |-> r.pulse_contribution]
        /\ inst_log' = Append(inst_log,
                              RSub(RInt(100), combined_stress(engine, f, v, p)))
        /\ nops' = nops + 1
        /\ UNCHANGED <<facial, pulse, voice, app>>

GetAlertLevel(h) ==
    /\ ret' = [op |-> "get_alert_level", honesty_score |-> h,
               alert_level |-> get_alert_level(h)]
    /\ nops' = nops + 1
    /\ UNCHANGED <<engine, facial, pulse, voice, app, inst_log>>

UpdateWeights(fa, vo, pu) ==
    \E r \in {update_weights(engine, fa, vo, pu)} :
        /\ engine' = r.engine
        /\ ret' = [op |-> "update_weights", facial |-> fa, voice |-> vo,
                   pulse |-> pu, raised |-> r.raised, old |-> Weights(engine)]
        /\ nops' = nops + 1
        /\ UNCHANGED <<facial, pulse, voice, app, inst_log>>

EngineReset ==
    /\ engine' = LogicEngine_reset(engine)
    /\ ret' = [op |-> "reset"]
    /\ inst_log' = <<>>
    /\ nops' = nops + 1
    /\ UNCHANGED <<facial, pulse, voice, app>>

Idle == "idle"

InitEngine ==
    /\ engine \in { LogicEngine_init(W(a[1]), W(a[2]), W(a[3])) :
                    a \in { c \in CtorArgs :
                            LogicEngine_accepts(W(c[1]), W(c[2]), W(c[3])) } }
    /\ facial = Idle /\ pulse = Idle /\ voice = Idle /\ app = Idle
    /\ ret = NoRet /\ inst_log = <<>> /\ nops = 0

NextEngine ==
    /\ nops < MaxOps
    /\ \/ \E t \in StressInputs : Analyze(RInt(t[1]), RInt(t[2]), RInt(t[3]))
       \/ \E h \in AlertProbes : GetAlertLevel(R(h, 100))
       \/ \E u \in UpdateArgs : UpdateWeights(u[1], u[2], u[3])
       \/ EngineReset

SpecEngine == InitEngine /\ [][NextEngine]_vars

(***************************************************************************)
(* Claims about the engine (checked under SpecEngine)                      *)
(***************************************************************************)
RNonNeg(x) == x[1] >= 0

WeightSum(e) == RAdd(RAdd(e.facial_weight, e.voice_weight), e.pulse_weight)

\* C1: every honesty score analyze returns lies in [0, 100], for every
\* engine the constructor accepts and every input (stated here for the
\* engines whose three weights are non-negative).
C1_HonestyInRange ==
    ( /\ ret.op = "analyze"
      /\ \A i \in 1..3 : RNonNeg(Weights(engine)[i]) ) =>
        /\ RLe(RInt(0), ret.honesty_score)
        /\ RLe(ret.honesty_score, RInt(100))

\* C2: after an update_weights call on valid weights (non-negative, sum 1)
\* that sets a subset of the weights to non-negative values, the three
\* weights are non-negative and sum to 1.
C2_RenormalizedAfterUpdate ==
    ( /\ ret.op = "update_weights"
      /\ \A i \in 1..3 : RNonNeg(ret.old[i])
      /\ RAdd(RAdd(ret.old[1], ret.old[2]), ret.old[3]) = RInt(1)
      /\ \A a \in {ret.facial, ret.voice, ret.pulse} : a = None \/ RNonNeg(a) )
    => /\ WeightSum(engine) = RInt(1)
       /\ \A i \in 1..3 : RNonNeg(Weights(engine)[i])

InUnit(x) == RLe(RInt(0), x) /\ RLe(x, RInt(100))

\* C4: with an empty smoothing history, analyze(f, v, p) with inputs in
\* [0, 100] returns 100 - (w_f*f + w_v*v + w_p*p); weights (0.4, 0.3, 0.3)
\* and inputs (30, 25, 20) give 74.5.
C4_FirstSampleFormula ==
    ( /\ ret.op = "analyze"
      /\ ret.n_before = 0
      /\ InUnit(ret.facial_raw) /\ InUnit(ret.voice_raw)
      /\ InUnit(ret.pulse_raw) )
    => /\ ret.honesty_score =
            RSub(RInt(100),
                 RAdd(RAdd(RMul(engine.facial_weight, ret.facial_raw),
                           RMul(engine.voice_weight, ret.voice_raw)),
                      RMul(engine.pulse_weight, ret.pulse_raw)))
       /\ ( /\ Weights(engine) = <<W(400), W(300), W(300)>>
            /\ ret.facial_raw = RInt(30) /\ ret.voice_raw = RInt(25)
            /\ ret.pulse_raw = RInt(20) )
          => ret.honesty_score = R(745, 10)

C4_Witness ==
    /\ ret.op = "analyze"
    /\ ret.n_before = 0
    /\ Weights(engine) = <<W(400), W(300), W(300)>>
    /\ ret.facial_raw = RInt(30) /\ ret.voice_raw = RInt(25)
    /\ ret.pulse_raw = RInt(20)
    /\ ret.honesty_score = R(745, 10)

\* C6: with weights (0, 0.6, 0.4) and an empty smoothing history, analyze
\* with voice 50 and pulse 100 returns honesty 30 and alert High, whatever
\* the facial input is.
C6_ZeroWeightModality ==
    ( /\ ret.op = "analyze"
      /\ ret.n_before = 0
      /\ Weights(engine) = <<W(0), W(600), W(400)>>
      /\ ret.voice_raw = RInt(50) /\ ret.pulse_raw = RInt(100) )
    => /\ ret.honesty_score = RInt(30)
       /\ ret.alert_level = "high_stress"

\* the case with a facial input that is neither 0 nor in range
C6_Witness ==
    /\ ret.op = "analyze"
    /\ ret.n_before = 0
    /\ Weights(engine) = <<W(0), W(600), W(400)>>
    /\ ret.voice_raw = RInt(50) /\ ret.pulse_raw = RInt(100)
    /\ ret.facial_raw = RInt(150)
    /\ ret.honesty_score = RInt(30)

\* the result dictionary of analyze, without the engine
ResultOf(a) ==
    [honesty_score |-> a.honesty_score, alert_level |-> a.alert_level,
     facial_contribution |-> a.facial_contribution,
     voice_contribution |-> a.voice_contribution,
     pulse_contribution |-> a.pulse_contribution,
     facial_raw |-> a.facial_raw, voice_raw |-> a.voice_raw,
     pulse_raw |-> a.pulse_raw]

\* C21: from every state and for every input triple, analyze returns the
\* honesty_score, alert_level and component_scores it would return, from
\* the same state, for the triple with each value clamped to [0, 100].
C21_AnalyzeClampsInputs ==
    [][ ret'.op = "analyze" =>
            ResultOf(analyze(engine, ret'.args[1], ret'.args[2], ret'.args[3]))
              = ResultOf(analyze(engine,
                                 clip(ret'.args[1], RInt(0), RInt(100)),
                                 clip(ret'.args[2], RInt(0), RInt(100)),
                                 clip(ret'.args[3], RInt(0), RInt(100)))) ]_vars

\* the weights of an update_weights call after its assignments
Assigned(r) ==
    << IF r.facial # None THEN r.facial ELSE r.old[1],
       IF r.voice # None THEN r.voice ELSE r.old[2],
       IF r.pulse # None THEN r.pulse ELSE r.old[3] >>

\* the positions update_weights was not given a value for
Unset(r) ==
    { i \in 1..3 : <<r.facial, r.voice, r.pulse>>[i] = None }

\* C29: update_weights divides the three weights by one common factor:
\* when the weights after the assignments have a non-zero sum, every
\* resulting weight is its value after the assignments divided by that sum,
\* and the weights that were not set keep their ratio to one another; from
\* (0.4, 0.3, 0.3), update_weights(facial=0) gives (0, 0.5, 0.5).
C29_CommonFactor ==
    ( /\ ret.op = "update_weights"
      /\ ~RIsZero(RAdd(RAdd(Assigned(ret)[1], Assigned(ret)[2]),
                       Assigned(ret)[3])) )
    => /\ \A i \in 1..3 :
              Weights(engine)[i] =
                  RDiv(Assigned(ret)[i],
                       RAdd(RAdd(Assigned(ret)[1], Assigned(ret)[2]),
                            Assigned(ret)[3]))
       /\ \A i, j \in Unset(ret) :
              RMul(Weights(engine)[i], ret.old[j]) =
                  RMul(Weights(engine)[j], ret.old[i])
       /\ ( /\ ret.old = <<W(400), W(300), W(300)>>
            /\ ret.facial = W(0) /\ ret.voice = None /\ ret.pulse = None )
          => Weights(engine) = <<W(0), W(500), W(500)>>

\* update_weights(facial=0) on the default weights
C29_Witness ==
    /\ ret.op = "update_weights"
    /\ ret.old = <<W(400), W(300), W(300)>>
    /\ ret.facial = W(0) /\ ret.voice = None /\ ret.pulse = None
    /\ Weights(engine) = <<W(0), W(500), W(500)>>

\* C30: an update_weights call that cannot renormalize (the weights after
\* the assignments sum to 0) fails and leaves the engine's weights exactly
\* as they were before the call.
C30_FailedUpdateKeepsWeights ==
    ( /\ ret.op = "update_weights"
      /\ RIsZero(RAdd(RAdd(Assigned(ret)[1], Assigned(ret)[2]),
                      Assigned(ret)[3])) )
    => /\ ret.raised
       /\ Weights(engine) = ret.old

(***************************************************************************)
(* The smoothing window: analyze and reset over more calls than the        *)
(* window holds.                                                           *)
(***************************************************************************)
MaxSmoothOps == 12

SmoothInputs == { <<0, 0, 0>>, <<100, 100, 100>> }

InitSmooth ==
    /\ engine \in { LogicEngine_init(W(400), W(300), W(300)),
                    LogicEngine_init(W(0), W(600), W(400)) }
    /\ facial = Idle /\ pulse = Idle /\ voice = Idle /\ app = Idle
    /\ ret = NoRet /\ inst_log = <<>> /\ nops = 0

NextSmooth ==
    /\ nops < MaxSmoothOps
    /\ \/ \E t \in SmoothInputs : Analyze(RInt(t[1]), RInt(t[2]), RInt(t[3]))
       \/ EngineReset

SpecSmooth == InitSmooth /\ [][NextSmooth]_vars

Min(a, b) == IF a < b THEN a ELSE b

LastN(s, n) == SubSeq(s, Len(s) - n + 1, Len(s))

\* C5: after n analyze calls since construction or the last reset, the
\* returned honesty score is the arithmetic mean of the instantaneous
\* honesty values of the last min(n, 10) calls (the oldest is evicted).
C5_MeanOfLastTen ==
    ret.op = "analyze" =>
        ret.honesty_score = RMean(LastN(inst_log, Min(Len(inst_log), 10)))

\* the 11th call, where the evicted value differs from the ones kept
C5_Witness ==
    /\ ret.op = "analyze"
    /\ Len(inst_log) = 11
    /\ inst_log[1] = RInt(0)
    /\ \A i \in 2..11 : inst_log[i] = RInt(100)
    /\ ret.honesty_score = RInt(100)

(***************************************************************************)
(* BPM_Estimator                                                           *)
(***************************************************************************)
\* the literal 5 of "self.fps * 5": seconds of signal needed for the FFT
MinBufferSeconds == 5

\* maxlen of bpm_history
BpmHistoryLen == 10

\* mutant: the deque ignores its maxlen
deque_append_unbounded(q, x, n) == Append(q, x)

\* mutant: a full buffer starts over with the new element
deque_append_restarts(q, x, n) ==
    IF n = 0 THEN <<>>
    ELSE IF Len(q) >= n THEN <<x>>
    ELSE Append(q, x)

\* deque(maxlen = n).append(x)
deque_append(q, x, n) ==
    IF n = 0 THEN <<>>
    ELSE IF Len(q) >= n THEN Append(Tail(q), x)
    ELSE Append(q, x)

\* s with x inserted before the first element greater than x (s sorted)
RECURSIVE RInsert(_, _)
RInsert(s, x) ==
    IF s = <<>> THEN <<x>>
    ELSE IF RLe(x, Head(s)) THEN <<x>> \o s
    ELSE <<Head(s)>> \o RInsert(Tail(s), x)

RECURSIVE RSort(_)
RSort(s) == IF s = <<>> THEN <<>> ELSE RInsert(RSort(Tail(s)), Head(s))

\* np.median of a non-empty sequence
RMedian(s) ==
    LET t == RSort(s)
        n == Len(t)
    IN  IF n % 2 = 1 THEN t[(n + 1) \div 2]
        ELSE RDiv(RAdd(t[n \div 2], t[n \div 2 + 1]), RInt(2))

BPM_Estimator_init(fps, buffer_seconds) ==
    [present |-> TRUE, fps |-> fps, buffer_size |-> fps * buffer_seconds,
     signal_buffer |-> <<>>, current_bpm |-> RInt(0), bpm_history |-> <<>>]

\* the stress score process_frame puts in its metrics
bpm_stress(bpm) ==
    IF RLt(RInt(90), bpm)
    THEN LET x == RMul(RDiv(RSub(bpm, RInt(90)), RInt(40)), RInt(100))
         IN  IF RLt(RInt(100), x) THEN RInt(100) ELSE x
    ELSE IF RLt(bpm, RInt(50)) THEN RInt(20)
    ELSE RInt(0)

BPM_Estimator_get_stress_score(pu) ==
    IF pu.current_bpm = RInt(0) THEN RInt(0) ELSE bpm_stress(pu.current_bpm)

\* process_frame.  roi: whether _extract_forehead_roi returns a region
\* (landmarks present and a non-empty crop); ppg: the mean green value of
\* the region; est: what _estimate_bpm_fft returns for the detrended and
\* filtered buffer (0, or the peak frequency in 48..180 BPM) - the filter
\* and the FFT are not computed here, est ranges over their possible results.
\* process_sample is the part that follows the extraction of a region.
process_sample(pu, ppg, est) ==
    LET buf == deque_append(pu.signal_buffer, ppg, pu.buffer_size)
        min_buffer_size == pu.fps * MinBufferSeconds
    IN  IF Len(buf) < min_buffer_size
        THEN [pulse |-> [pu EXCEPT !.signal_buffer = buf],
              bpm |-> RInt(0), status |-> "buffering",
              progress |-> RMul(R(Len(buf), min_buffer_size), RInt(100)),
              stress_score |-> RInt(0)]
        ELSE
          LET hist == deque_append(pu.bpm_history, est, BpmHistoryLen)
              cur == RMedian(hist)
          IN  [pulse |-> [pu EXCEPT !.signal_buffer = buf,
                                    !.bpm_history = hist,
                                    !.current_bpm = cur],
               bpm |-> cur, status |-> "active",
               progress |-> RInt(100), stress_score |-> bpm_stress(cur)]

\* mutant: without a forehead region the estimate is dropped
process_frame_no_roi_forgets(pu, roi, ppg, est) ==
    IF ~roi
    THEN [pulse |-> [pu EXCEPT !.current_bpm = RInt(0)], bpm |-> RInt(0),
          status |-> "error", progress |-> RInt(0), stress_score |-> RInt(0)]
    ELSE process_sample(pu, ppg, est)

process_frame(pu, roi, ppg, est) ==
    IF ~roi
    THEN [pulse |-> pu, bpm |-> pu.current_bpm, status |-> "error",
          progress |-> RInt(0), stress_score |-> RInt(0)]
    ELSE process_sample(pu, ppg, est)

\* mutant: the buffers are cleared but current_bpm is kept
BPM_Estimator_reset_keeps_bpm(pu) ==
    [pu EXCEPT !.signal_buffer = <<>>, !.bpm_history = <<>>]

BPM_Estimator_reset(pu) ==
    [pu EXCEPT !.signal_buffer = <<>>, !.bpm_history = <<>>,
               !.current_bpm = RInt(0)]

(***************************************************************************)
(* The pulse estimator on its own                                          *)
(***************************************************************************)
MaxFrames == 8

\* constructor arguments <<fps, buffer_seconds>> (the defaults are 30, 10);
\* with buffer_seconds < 5 the buffer never holds fps*5 samples
PulseCtorArgs == { <<1, 10>>, <<1, 5>>, <<1, 3>>, <<2, 3>> }

\* mean green intensities
PpgSamples == { RInt(128), RInt(130) }

\* results of the spectral peak search: none in range, or 48..180 BPM
BpmEstimates == { RInt(0), RInt(95), RInt(180) }

ProcessFrame(roi, ppg, est) ==
    \E r \in {process_frame(pulse, roi, ppg, est)} :
        /\ pulse' = r.pulse
        /\ ret' = [op |-> "process_frame", roi |-> roi, bpm |-> r.bpm,
                   n_before |-> Len(pulse.signal_buffer), old |-> pulse,
                   status |-> r.status, progress |-> r.progress,
                   stress_score |-> r.stress_score,
                   get_stress_score |-> BPM_Estimator_get_stress_score(r.pulse)]
        /\ inst_log' = IF r.status = "error" THEN inst_log
                       ELSE Append(inst_log, r.status)
        /\ nops' = nops + 1
        /\ UNCHANGED <<engine, facial, voice, app>>

PulseReset ==
    /\ pulse' = BPM_Estimator_reset(pulse)
    /\ ret' = [op |-> "reset"]
    /\ inst_log' = Append(inst_log, "reset")
    /\ nops' = nops + 1
    /\ UNCHANGED <<engine, facial, voice, app>>

InitPulse ==
    /\ pulse \in { BPM_Estimator_init(a[1], a[2]) : a \in PulseCtorArgs }
    /\ engine = Idle /\ facial = Idle /\ voice = Idle /\ app = Idle
    /\ ret = NoRet /\ inst_log = <<>> /\ nops = 0

NextPulse ==
    /\ nops < MaxFrames
    /\ \/ \E ppg \in PpgSamples, est \in BpmEstimates :
              ProcessFrame(TRUE, ppg, est)
       \/ ProcessFrame(FALSE, RInt(0), RInt(0))
       \/ PulseReset

SpecPulse == InitPulse /\ [][NextPulse]_vars

\* C10, as stated: every process_frame call made while the signal buffer
\* holds fewer than fps*5 samples (the buffer as the call finds it) returns
\* BPM 0.  The call that finds fps*5 - 1 samples appends its own sample,
\* passes the length check and returns the estimate.
C10_CallMadeBelowThreshold ==
    (ret.op = "process_frame" /\ ret.n_before < pulse.fps * 5) =>
        ret.bpm = RInt(0)

\* C10, amended: whenever the signal buffer holds fewer than fps*5 samples,
\* current_bpm is 0, and a process_frame call that leaves the buffer in such
\* a state (its own sample counted; with or without a forehead region) has
\* returned BPM 0.
C10_NoBpmWhileBuffering ==
    Len(pulse.signal_buffer) < pulse.fps * 5 =>
        /\ pulse.current_bpm = RInt(0)
        /\ ret.op = "process_frame" => ret.bpm = RInt(0)

\* a frame without a forehead region while the buffer is partly filled
C10_Witness ==
    /\ ret.op = "process_frame"
    /\ ret.status = "error"
    /\ Len(pulse.signal_buffer) \in 1..(pulse.fps * 5 - 1)
    /\ ret.bpm = RInt(0)

\* C18: when no forehead region can be extracted, process_frame returns
\* the BPM held before the call with the error marker, and leaves the
\* signal buffer, the BPM history and current_bpm unchanged.
C18_NoRegionKeepsEstimate ==
    (ret.op = "process_frame" /\ ~ret.roi) =>
        /\ ret.bpm = ret.old.current_bpm
        /\ ret.status = "error"
        /\ pulse.signal_buffer = ret.old.signal_buffer
        /\ pulse.bpm_history = ret.old.bpm_history
        /\ pulse.current_bpm = ret.old.current_bpm

\* a frame without a region after a non-zero estimate
C18_Witness ==
    /\ ret.op = "process_frame" /\ ~ret.roi /\ ret.status = "error"
    /\ ret.bpm # RInt(0)
    /\ pulse.bpm_history # <<>>

\* the pulse stress the specification gives for a BPM value
PulseStressOf(bpm) ==
    IF RLt(RInt(90), bpm)
    THEN RMin(RInt(100), RMul(RDiv(RSub(bpm, RInt(90)), RInt(40)), RInt(100)))
    ELSE IF RLt(bpm, RInt(50)) THEN RInt(20)
    ELSE RInt(0)

\* C11: for every current BPM value an estimate yields, both reports of the
\* pulse stress (the stress_score of process_frame's metrics and
\* get_stress_score) are min(100, (BPM-90)/40*100) above 90, 20 below 50 and
\* 0 otherwise.
C11_PulseStressFormula ==
    (ret.op = "process_frame" /\ ret.status = "active") =>
        /\ ret.stress_score = PulseStressOf(pulse.current_bpm)
        /\ ret.get_stress_score = PulseStressOf(pulse.current_bpm)

(***************************************************************************)
(* FacialAnalysis                                                          *)
(***************************************************************************)
\* the analyser that could not be built (MediaPipe unavailable): the host
\* holds None in its place
NoObject == [present |-> FALSE]

FacialAnalysis_init(window_size, sensitivity) ==
    [present |-> TRUE, window_size |-> window_size,
     sensitivity |-> sensitivity,
     eyebrow_distances |-> <<>>, lip_distances |-> <<>>,
     blink_history |-> <<>>,
     frame_count |-> 0, last_blink_state |-> FALSE, blink_count |-> 0]

\* _detect_blink: the mean eyelid distance against blink_threshold = 5.0
detect_blink(avg_vertical) == RLt(avg_vertical, RInt(5))

\* largest k with k*k <= n, searched in lo..hi
RECURSIVE ISqrtIn(_, _, _)
ISqrtIn(n, lo, hi) ==
    IF lo >= hi THEN lo
    ELSE LET mid == (lo + hi + 1) \div 2
         IN  IF mid * mid <= n THEN ISqrtIn(n, mid, hi)
             ELSE ISqrtIn(n, lo, mid - 1)

\* the square root of a rational x >= 0, rounded down to thousandths
RSqrt(x) == R(ISqrtIn((x[1] * 1000000) \div x[2], 0, 46340), 1000)

\* the population variance np.std squares
RVar(s) ==
    LET m == RMean(s)
        sq == [i \in 1..Len(s) |-> RMul(RSub(s[i], m), RSub(s[i], m))]
    IN  RMean(sq)

\* mutant: the scorer starts at 4 samples
compute_anomaly_score_from_four(current_value, history, sensitivity) ==
    IF Len(history) < 4 THEN RInt(0)
    ELSE LET baseline == RMean(history)
             var == RVar(history)
             dev == RAbs(RSub(current_value, baseline))
         IN  IF RIsZero(dev) THEN RInt(0)
             ELSE IF RIsZero(RSqrt(var)) THEN RInt(100)
             ELSE RMin(RInt(100),
                       RMul(RDiv(RDiv(dev, RSqrt(var)), sensitivity),
                            RInt(100)))

\* _compute_anomaly_score.  The standard deviation is computed to
\* thousandths; the epsilon 1e-6 added to it is below that precision and
\* only decides the case std = 0, where every sample equals the mean: the
\* current value is the last sample, so the z-score is then 0.
compute_anomaly_score(current_value, history, sensitivity) ==
    IF Len(history) < 5 THEN RInt(0)
    ELSE LET baseline == RMean(history)
             var == RVar(history)
             dev == RAbs(RSub(current_value, baseline))
         IN  IF RIsZero(dev) THEN RInt(0)
             ELSE IF RIsZero(RSqrt(var)) THEN RInt(100)
             ELSE RMin(RInt(100),
                       RMul(RDiv(RDiv(dev, RSqrt(var)), sensitivity),
                            RInt(100)))

\* the number of 1s in the blink flags
RECURSIVE SumInts(_)
SumInts(s) == IF s = <<>> THEN 0 ELSE Head(s) + SumInts(Tail(s))

\* blink_rate: (sum / len) * 60 * 30
blink_rate_of(h) == RMul(R(SumInts(h), Len(h)), RInt(1800))

\* mutant: the blink term is not capped
blink_anomaly_of_uncapped(rate) ==
    IF RLt(RInt(25), rate)
    THEN RMul(RDiv(RSub(rate, RInt(25)), RInt(20)), RInt(100))
    ELSE IF RLt(rate, RInt(10))
    THEN RMul(RDiv(RSub(RInt(10), rate), RInt(10)), RInt(100))
    ELSE RInt(0)

blink_anomaly_of(rate) ==
    IF RLt(RInt(25), rate)
    THEN RMin(RInt(100), RMul(RDiv(RSub(rate, RInt(25)), RInt(20)), RInt(100)))
    ELSE IF RLt(rate, RInt(10))
    THEN RMin(RInt(100), RMul(RDiv(RSub(RInt(10), rate), RInt(10)), RInt(100)))
    ELSE RInt(0)

\* mutant: every frame with closed eyes counts as a blink
blink_edge_level(is_blinking, last_blink_state) == is_blinking

\* the condition under which a frame counts as a blink: the eyes are closed
\* and were not on the last analysed frame
blink_edge(is_blinking, last_blink_state) == is_blinking /\ ~last_blink_state

\* a frame without a detected face
NoFace == [face |-> FALSE]

\* analyze_frame, lm being what face_mesh.process finds in the frame: NoFace,
\* or the three measurements the landmarks give (eyebrow distance, lip
\* ratio, mean eyelid distance).  analyze_landmarks is the part that
\* follows the detection of a face; fa has the frame already counted.
analyze_landmarks(fa, lm) ==
    LET is_blinking == detect_blink(lm.avg_vertical)
        eb == deque_append(fa.eyebrow_distances, lm.eyebrow_dist,
                           fa.window_size)
        lp == deque_append(fa.lip_distances, lm.lip_dist, fa.window_size)
        edge == blink_edge(is_blinking, fa.last_blink_state)
        bh == deque_append(fa.blink_history, IF edge THEN 1 ELSE 0, 60)
        rate == blink_rate_of(bh)
        ea == compute_anomaly_score(lm.eyebrow_dist, eb, fa.sensitivity)
        la == compute_anomaly_score(lm.lip_dist, lp, fa.sensitivity)
        ba == blink_anomaly_of(rate)
    IN  [facial |-> [fa EXCEPT
                        !.eyebrow_distances = eb,
                        !.lip_distances = lp,
                        !.blink_history = bh,
                        !.blink_count = IF edge THEN fa.blink_count + 1
                                        ELSE fa.blink_count,
                        !.last_blink_state = is_blinking],
         stress_score |-> RAdd(RAdd(RMul(ea, R(4, 10)), RMul(la, R(3, 10))),
                               RMul(ba, R(3, 10))),
         error |-> FALSE, blink_rate |-> rate, eyebrow_anomaly |-> ea,
         lip_anomaly |-> la, blink_anomaly |-> ba]

\* the result of a frame in which no face is found
no_face_result(fa) ==
    [facial |-> fa, stress_score |-> RInt(0), error |-> TRUE,
     blink_rate |-> RInt(0), eyebrow_anomaly |-> RInt(0),
     lip_anomaly |-> RInt(0), blink_anomaly |-> RInt(0)]

\* mutant: a frame without a face is taken as a frame with open eyes
analyze_frame_no_face_opens_eyes(fa, lm) ==
    LET counted == [fa EXCEPT !.frame_count = fa.frame_count + 1]
    IN  IF ~lm.face
        THEN no_face_result([counted EXCEPT !.last_blink_state = FALSE])
        ELSE analyze_landmarks(counted, lm)

analyze_frame(fa, lm) ==
    LET counted == [fa EXCEPT !.frame_count = fa.frame_count + 1]
    IN  IF ~lm.face
        THEN no_face_result(counted)
        ELSE analyze_landmarks(counted, lm)

FacialAnalysis_reset(fa) ==
    [fa EXCEPT !.eyebrow_distances = <<>>, !.lip_distances = <<>>,
               !.blink_history = <<>>, !.frame_count = 0,
               !.blink_count = 0, !.last_blink_state = FALSE]

(***************************************************************************)
(* The facial analyser on its own                                          *)
(***************************************************************************)
MaxFacialFrames == 8

\* constructor arguments <<window_size, sensitivity>> (the defaults are
\* 30, 2.0); a window of 3 never holds the 5 samples the scorer needs
FacialCtorArgs == { <<30, RInt(2)>>, <<3, RInt(2)>> }

\* what the landmark model reports for a frame
FaceInputs ==
    { NoFace,
      [face |-> TRUE, eyebrow_dist |-> RInt(10), lip_dist |-> R(1, 2),
       avg_vertical |-> RInt(8)],
      [face |-> TRUE, eyebrow_dist |-> RInt(12), lip_dist |-> R(1, 4),
       avg_vertical |-> RInt(3)] }

\* current values the scorer is probed with
AnomalyProbes == { RInt(0), RInt(10), RInt(1000) }

AnalyzeFrame(lm) ==
    \E r \in {analyze_frame(facial, lm)} :
        /\ facial' = r.facial
        /\ ret' = [op |-> "analyze_frame", face |-> lm.face, old |-> facial,
                   lm |-> lm,
                   stress_score |-> r.stress_score, error |-> r.error,
                   blink_rate |-> r.blink_rate,
                   eyebrow_anomaly |-> r.eyebrow_anomaly,
                   lip_anomaly |-> r.lip_anomaly,
                   blink_anomaly |-> r.blink_anomaly]
        /\ nops' = nops + 1
        /\ UNCHANGED <<engine, pulse, voice, app, inst_log>>

FacialReset ==
    /\ facial' = FacialAnalysis_reset(facial)
    /\ ret' = [op |-> "reset"]
    /\ nops' = nops + 1
    /\ UNCHANGED <<engine, pulse, voice, app, inst_log>>

InitFacial ==
    /\ facial \in { FacialAnalysis_init(a[1], a[2]) : a \in FacialCtorArgs }
    /\ engine = Idle /\ pulse = Idle /\ voice = Idle /\ app = Idle
    /\ ret = NoRet /\ inst_log = <<>> /\ nops = 0

NextFacial ==
    /\ nops < MaxFacialFrames
    /\ \/ \E lm \in FaceInputs : AnalyzeFrame(lm)
       \/ FacialReset

SpecFacial == InitFacial /\ [][NextFacial]_vars

\* C12: whenever a metric's window (eyebrow or lip) holds fewer than 5
\* samples, the scorer gives that metric the anomaly 0 whatever the current
\* value, and so does the frame that has just been analysed; after
\* construction and after every reset alike.
C12_NoAnomalyBelowFiveSamples ==
    /\ Len(facial.eyebrow_distances) < 5 =>
           /\ \A x \in AnomalyProbes :
                  compute_anomaly_score(x, facial.eyebrow_distances,
                                        facial.sensitivity) = RInt(0)
           /\ (ret.op = "analyze_frame" /\ ~ret.error) =>
                  ret.eyebrow_anomaly = RInt(0)
    /\ Len(facial.lip_distances) < 5 =>
           /\ \A x \in AnomalyProbes :
                  compute_anomaly_score(x, facial.lip_distances,
                                        facial.sensitivity) = RInt(0)
           /\ (ret.op = "analyze_frame" /\ ~ret.error) =>
                  ret.lip_anomaly = RInt(0)

\* four unequal samples in each window, collected after a reset (more
\* operations than frames counted), and a frame scored 0 on both metrics
C12_Witness ==
    /\ ret.op = "analyze_frame" /\ ~ret.error
    /\ nops > facial.frame_count
    /\ Len(facial.eyebrow_distances) = 4
    /\ \E i, j \in 1..4 : facial.eyebrow_distances[i] # facial.eyebrow_distances[j]
    /\ \E i, j \in 1..4 : facial.lip_distances[i] # facial.lip_distances[j]
    /\ ret.eyebrow_anomaly = RInt(0) /\ ret.lip_anomaly = RInt(0)

\* C19: a frame in which no landmarks are found returns score 0 with the
\* error marker and leaves the eyebrow, lip and blink windows, the blink
\* counter and the last blink state as they were.
C19_NoFaceLeavesWindows ==
    (ret.op = "analyze_frame" /\ ~ret.face) =>
        /\ ret.stress_score = RInt(0)
        /\ ret.error
        /\ facial.eyebrow_distances = ret.old.eyebrow_distances
        /\ facial.lip_distances = ret.old.lip_distances
        /\ facial.blink_history = ret.old.blink_history
        /\ facial.blink_count = ret.old.blink_count
        /\ facial.last_blink_state = ret.old.last_blink_state

\* a frame without a face that follows a frame with closed eyes
C19_Witness ==
    /\ ret.op = "analyze_frame" /\ ~ret.face /\ ret.error
    /\ facial.last_blink_state
    /\ facial.blink_count > 0
    /\ Len(facial.eyebrow_distances) > 0
    /\ facial.frame_count = ret.old.frame_count + 1

\* C23: on every face-detected frame, blink_count goes up by one and a 1
\* is pushed to the blink window if the eyes are closed and were not closed
\* on the previous analysed frame; on every other face-detected frame the
\* count stays and a 0 is pushed.  A closure held over consecutive frames
\* therefore counts once.
C23_BlinksOnRisingEdges ==
    (ret.op = "analyze_frame" /\ ret.face) =>
        LET closed == RLt(ret.lm.avg_vertical, RInt(5))
            rising == closed /\ ~ret.old.last_blink_state
            flag == IF rising THEN 1 ELSE 0
        IN  /\ facial.blink_count = ret.old.blink_count + flag
            /\ facial.blink_history =
                   IF Len(ret.old.blink_history) < 60
                   THEN Append(ret.old.blink_history, flag)
                   ELSE Append(Tail(ret.old.blink_history), flag)
            /\ facial.last_blink_state = closed

\* the second frame of a held closure: counted once, a 0 pushed
C23_Witness ==
    /\ ret.op = "analyze_frame" /\ ret.face
    /\ RLt(ret.lm.avg_vertical, RInt(5))
    /\ ret.old.last_blink_state
    /\ facial.blink_count = 1
    /\ Len(facial.blink_history) >= 2
    /\ facial.blink_history[Len(facial.blink_history)] = 0
    /\ facial.blink_history[Len(facial.blink_history) - 1] = 1

(***************************************************************************)
(* VoiceStress                                                             *)
(***************************************************************************)
ZeroMetrics ==
    [pitch_mean |-> RInt(0), pitch_std |-> RInt(0), jitter |-> RInt(0),
     shimmer |-> RInt(0), energy |-> RInt(0), stress_score |-> RInt(0)]

\* int(x) of a rational x >= 0
RFloor(x) == x[1] \div x[2]

VoiceStress_init(sample_rate, chunk_duration) ==
    [sample_rate |-> sample_rate,
     chunk_size |-> RFloor(RMul(RInt(sample_rate), chunk_duration)),
     audio_maxlen |-> sample_rate * 5,
     audio_buffer |-> <<>>,
     pitch_history |-> <<>>, jitter_history |-> <<>>,
     shimmer_history |-> <<>>, energy_history |-> <<>>,
     current_metrics |-> ZeroMetrics,
     is_recording |-> FALSE]

\* deque(maxlen = n).extend(xs)
RECURSIVE deque_extend(_, _, _)
deque_extend(q, xs, n) ==
    IF xs = <<>> THEN q
    ELSE deque_extend(deque_append(q, Head(xs), n), Tail(xs), n)

\* _audio_callback: the samples PyAudio delivers are appended
audio_callback(vo, in_data) ==
    IF in_data # <<>>
    THEN [vo EXCEPT !.audio_buffer =
                        deque_extend(vo.audio_buffer, in_data, vo.audio_maxlen)]
    ELSE vo

\* the features of a window of silence: no voiced frame, no amplitude
SilentFeatures ==
    [pitch_mean |-> RInt(0), pitch_std |-> RInt(0), jitter |-> RInt(0),
     shimmer |-> RInt(0), energy |-> RInt(0)]

\* whether the analysed window holds only zeros
IsSilent(w) == \A i \in 1..Len(w) : w[i] = 0

\* mutant: the histories take every window, voiced or not
push_always(h, x, voiced) == deque_append(h, x, 30)

\* the update of one feature history: only a voiced window is recorded
push_voiced(h, x, voiced) == IF voiced THEN deque_append(h, x, 30) ELSE h

\* mutant: the pitch term is never taken
stress_components_without_pitch(f, ph) ==
    <<RMin(RInt(100), RMul(RDiv(f.jitter, RInt(2)), RInt(100))),
      RMin(RInt(100), RMul(RDiv(f.shimmer, RInt(5)), RInt(100)))>>

\* the terms of the composite score: the pitch term (with more than 5
\* samples in the history ph and a positive median), jitter, shimmer
stress_components(f, ph) ==
    LET pitch_part ==
            IF Len(ph) > 5 /\ RLt(RInt(0), RMedian(ph))
            THEN <<RMin(RInt(100),
                        RMul(RDiv(f.pitch_std, RMedian(ph)), RInt(50)))>>
            ELSE <<>>
        jitter_stress == RMin(RInt(100), RMul(RDiv(f.jitter, RInt(2)), RInt(100)))
        shimmer_stress ==
            RMin(RInt(100), RMul(RDiv(f.shimmer, RInt(5)), RInt(100)))
    IN  pitch_part \o <<jitter_stress, shimmer_stress>>

\* analyze_audio.  feat: the features _extract_pitch, _calculate_jitter,
\* _calculate_shimmer and _calculate_energy compute from the window (the
\* pitch tracker and the RMS frames are not computed here: feat ranges over
\* their possible results; a window of zeros has the features of silence)
\* analyze_chunk is the part that follows the length check.
analyze_chunk(vo, feat) ==
    LET window == LastN(vo.audio_buffer, vo.chunk_size)
        f == IF IsSilent(window) THEN SilentFeatures ELSE feat
        voiced == RLt(RInt(0), f.pitch_mean)
        ph == push_voiced(vo.pitch_history, f.pitch_std, voiced)
        jh == push_voiced(vo.jitter_history, f.jitter, voiced)
        sh == push_voiced(vo.shimmer_history, f.shimmer, voiced)
        eh == push_voiced(vo.energy_history, f.energy, voiced)
        score == RMean(stress_components(f, ph))
        metrics == [pitch_mean |-> f.pitch_mean, pitch_std |-> f.pitch_std,
                    jitter |-> f.jitter, shimmer |-> f.shimmer,
                    energy |-> f.energy, stress_score |-> score]
    IN  [voice |-> [vo EXCEPT !.pitch_history = ph, !.jitter_history = jh,
                              !.shimmer_history = sh, !.energy_history = eh,
                              !.current_metrics = metrics],
         stress_score |-> score, status |-> "active",
         progress |-> RInt(100), window |-> window]

\* mutant: the placeholder of a short buffer is logged as a measurement
analyze_audio_logs_placeholder(vo, feat) ==
    IF Len(vo.audio_buffer) < vo.chunk_size
    THEN [voice |-> [vo EXCEPT !.jitter_history =
                                   deque_append(vo.jitter_history, RInt(0), 30)],
          stress_score |-> RInt(0), status |-> "buffering",
          progress |-> RMul(R(Len(vo.audio_buffer), vo.chunk_size), RInt(100)),
          window |-> <<>>]
    ELSE analyze_chunk(vo, feat)

analyze_audio(vo, feat) ==
    IF Len(vo.audio_buffer) < vo.chunk_size
    THEN [voice |-> vo, stress_score |-> RInt(0), status |-> "buffering",
          progress |-> RMul(R(Len(vo.audio_buffer), vo.chunk_size), RInt(100)),
          window |-> <<>>]
    ELSE analyze_chunk(vo, feat)

VoiceStress_reset(vo) ==
    [vo EXCEPT !.audio_buffer = <<>>, !.pitch_history = <<>>,
               !.jitter_history = <<>>, !.shimmer_history = <<>>,
               !.energy_history = <<>>, !.current_metrics = ZeroMetrics]

\* start_recording (the stream opens) and stop_recording
start_recording(vo) == [vo EXCEPT !.is_recording = TRUE]

stop_recording(vo) == [vo EXCEPT !.is_recording = FALSE]

(***************************************************************************)
(* The voice analyser on its own, with its capture thread                  *)
(***************************************************************************)
MaxVoiceOps == 9

\* constructor arguments <<sample_rate, chunk_duration>> (the defaults are
\* 16000, 1.0); with a chunk longer than 5 seconds the buffer (5 seconds)
\* never holds a window
VoiceCtorArgs == { <<1, RInt(1)>>, <<2, RInt(1)>>, <<1, RInt(6)>> }

\* features of a window that is not silent: unvoiced noise, a steady tone
\* (one pitch throughout), a voiced window
VoiceFeatures ==
    { [pitch_mean |-> RInt(0), pitch_std |-> RInt(0), jitter |-> RInt(0),
       shimmer |-> RInt(10), energy |-> R(1, 10)],
      [pitch_mean |-> RInt(220), pitch_std |-> RInt(0), jitter |-> RInt(1),
       shimmer |-> RInt(2), energy |-> R(2, 10)],
      [pitch_mean |-> RInt(150), pitch_std |-> RInt(10), jitter |-> RInt(1),
       shimmer |-> RInt(1), energy |-> R(3, 10)] }

\* what one PyAudio callback delivers (frames_per_buffer samples)
AudioChunks == { <<0>>, <<1>> }

\* a strained voice: every feature at the top of its range
StrainedFeatures ==
    [pitch_mean |-> RInt(300), pitch_std |-> RInt(500), jitter |-> RInt(100),
     shimmer |-> RInt(100), energy |-> RInt(1)]

\* the features the extractors can return for the window now in the buffer
WindowFeatures(vo, feats) ==
    IF /\ Len(vo.audio_buffer) >= vo.chunk_size
       /\ ~IsSilent(LastN(vo.audio_buffer, vo.chunk_size))
    THEN feats
    ELSE {SilentFeatures}

AudioCallback(in_data) ==
    /\ voice.is_recording
    /\ voice' = audio_callback(voice, in_data)
    /\ ret' = [op |-> "audio_callback"]
    /\ nops' = nops + 1
    /\ UNCHANGED <<engine, facial, pulse, app, inst_log>>

AnalyzeAudio(feat) ==
    \E r \in {analyze_audio(voice, feat)} :
        /\ voice' = r.voice
        /\ ret' = [op |-> "analyze_audio", old |-> voice, status |-> r.status,
                   progress |-> r.progress, stress_score |-> r.stress_score,
                   window |-> r.window]
        /\ inst_log' = Append(inst_log, r.status)
        /\ nops' = nops + 1
        /\ UNCHANGED <<engine, facial, pulse, app>>

VoiceReset ==
    /\ voice' = VoiceStress_reset(voice)
    /\ ret' = [op |-> "reset"]
    /\ inst_log' = Append(inst_log, "reset")
    /\ nops' = nops + 1
    /\ UNCHANGED <<engine, facial, pulse, app>>

\* start_recording; stream_ok: whether the audio stream could be opened
StartRecording(stream_ok) ==
    /\ ~voice.is_recording
    /\ voice' = IF stream_ok THEN start_recording(voice) ELSE voice
    /\ ret' = [op |-> "start_recording"]
    /\ nops' = nops + 1
    /\ UNCHANGED <<engine, facial, pulse, app, inst_log>>

StopRecording ==
    /\ voice.is_recording
    /\ voice' = stop_recording(voice)
    /\ ret' = [op |-> "stop_recording"]
    /\ nops' = nops + 1
    /\ UNCHANGED <<engine, facial, pulse, app, inst_log>>

InitVoice ==
    /\ voice \in { VoiceStress_init(a[1], a[2]) : a \in VoiceCtorArgs }
    /\ engine = Idle /\ facial = Idle /\ pulse = Idle /\ app = Idle
    /\ ret = NoRet /\ inst_log = <<>> /\ nops = 0

NextVoice ==
    /\ nops < MaxVoiceOps
    /\ \/ \E ok \in BOOLEAN : StartRecording(ok)
       \/ StopRecording
       \/ \E c \in AudioChunks : AudioCallback(c)
       \/ \E f \in WindowFeatures(voice, VoiceFeatures \cup {StrainedFeatures}) :
              AnalyzeAudio(f)
       \/ VoiceReset

SpecVoice == InitVoice /\ [][NextVoice]_vars

\* C13: whenever the audio buffer holds fewer samples than one analysis
\* window, analyze_audio returns the buffering status with progress =
\* buffered / required * 100, strictly below 100, and changes none of the
\* feature histories.
C13_ShortBufferIsBuffering ==
    (ret.op = "analyze_audio"
        /\ Len(ret.old.audio_buffer) < ret.old.chunk_size) =>
        /\ ret.status = "buffering"
        /\ ret.progress = RMul(R(Len(ret.old.audio_buffer), ret.old.chunk_size),
                               RInt(100))
        /\ RLt(ret.progress, RInt(100))
        /\ voice.pitch_history = ret.old.pitch_history
        /\ voice.jitter_history = ret.old.jitter_history
        /\ voice.shimmer_history = ret.old.shimmer_history
        /\ voice.energy_history = ret.old.energy_history

\* half a window buffered: progress 50
C13_Witness ==
    /\ ret.op = "analyze_audio" /\ ret.status = "buffering"
    /\ Len(voice.audio_buffer) = 1 /\ voice.chunk_size = 2
    /\ ret.progress = RInt(50)

\* h after x has been pushed into a window of capacity 30
Pushed(h, x) == IF Len(h) < 30 THEN Append(h, x) ELSE Append(Tail(h), x)

\* C24: an analysis tick pushes a sample into the four feature histories
\* (pitch-std, jitter, shimmer, energy) exactly when its pitch mean is > 0,
\* into all four together; a tick without voiced audio changes none of
\* them; in every state the four histories have the same length.
C24_HistoriesMoveTogether ==
    /\ Len(voice.jitter_history) = Len(voice.pitch_history)
    /\ Len(voice.shimmer_history) = Len(voice.pitch_history)
    /\ Len(voice.energy_history) = Len(voice.pitch_history)
    /\ (ret.op = "analyze_audio" /\ ret.status = "active") =>
           IF RLt(RInt(0), voice.current_metrics.pitch_mean)
           THEN /\ voice.pitch_history =
                       Pushed(ret.old.pitch_history,
                              voice.current_metrics.pitch_std)
                /\ voice.jitter_history =
                       Pushed(ret.old.jitter_history,
                              voice.current_metrics.jitter)
                /\ voice.shimmer_history =
                       Pushed(ret.old.shimmer_history,
                              voice.current_metrics.shimmer)
                /\ voice.energy_history =
                       Pushed(ret.old.energy_history,
                              voice.current_metrics.energy)
           ELSE /\ voice.pitch_history = ret.old.pitch_history
                /\ voice.jitter_history = ret.old.jitter_history
                /\ voice.shimmer_history = ret.old.shimmer_history
                /\ voice.energy_history = ret.old.energy_history

\* an unvoiced tick after two voiced ones: the histories stay at two samples
C24_Witness ==
    /\ ret.op = "analyze_audio" /\ ret.status = "active"
    /\ RIsZero(voice.current_metrics.pitch_mean)
    /\ Len(voice.pitch_history) = 2
    /\ Len(voice.energy_history) = 2

\* the jitter and shimmer terms of the composite score of the last tick
JitterTerm ==
    RMin(RInt(100),
         RMul(RDiv(voice.current_metrics.jitter, RInt(2)), RInt(100)))

ShimmerTerm ==
    RMin(RInt(100),
         RMul(RDiv(voice.current_metrics.shimmer, RInt(5)), RInt(100)))

\* the pitch term min(100, pitch_std / median(history) * 50) of the last
\* tick.  With a median of 0 the quotient is infinite or not a number in
\* the program's floating point, and min(100.0, .) of either is 100.0.
PitchTerm ==
    IF RIsZero(RMedian(voice.pitch_history)) THEN RInt(100)
    ELSE RMin(RInt(100),
              RMul(RDiv(voice.current_metrics.pitch_std,
                        RMedian(voice.pitch_history)), RInt(50)))

\* C25, as stated: on every active tick the score is the mean of the
\* jitter term, the shimmer term and, exactly when the pitch-std history
\* holds more than 5 samples, the pitch term.
C25_PitchTermAboveFiveSamples ==
    (ret.op = "analyze_audio" /\ ret.status = "active") =>
        /\ ret.stress_score = voice.current_metrics.stress_score
        /\ ret.stress_score =
               IF Len(voice.pitch_history) > 5
               THEN RMean(<<PitchTerm, JitterTerm, ShimmerTerm>>)
               ELSE RMean(<<JitterTerm, ShimmerTerm>>)

\* C25, amended: on every active tick the score is the mean of the jitter
\* term, the shimmer term and, exactly when the pitch-std history holds
\* more than 5 samples and their median is positive, the pitch term.
C25_MeanOfAvailableTerms ==
    (ret.op = "analyze_audio" /\ ret.status = "active") =>
        /\ ret.stress_score = voice.current_metrics.stress_score
        /\ ret.stress_score =
               IF Len(voice.pitch_history) > 5
                  /\ RLt(RInt(0), RMedian(voice.pitch_history))
               THEN RMean(<<PitchTerm, JitterTerm, ShimmerTerm>>)
               ELSE RMean(<<JitterTerm, ShimmerTerm>>)

\* a tick scored with the three terms
C25_Witness ==
    /\ ret.op = "analyze_audio" /\ ret.status = "active"
    /\ Len(voice.pitch_history) > 5
    /\ RLt(RInt(0), RMedian(voice.pitch_history))
    /\ ret.stress_score = RMean(<<PitchTerm, JitterTerm, ShimmerTerm>>)
    /\ ret.stress_score # RMean(<<JitterTerm, ShimmerTerm>>)

(***************************************************************************)
(* The three producers, each running on its own                            *)
(***************************************************************************)
\* the host of a producer that runs alone
Alone(k) == [alone |-> k]

InitProducers ==
    /\ \E k \in {"facial", "pulse", "voice"} :
          /\ app = Alone(k)
          /\ facial \in IF k = "facial"
                         THEN { FacialAnalysis_init(a[1], a[2]) :
                                    a \in FacialCtorArgs }
                         ELSE {Idle}
          /\ pulse \in IF k = "pulse"
                        THEN { BPM_Estimator_init(a[1], a[2]) :
                                   a \in PulseCtorArgs }
                        ELSE {Idle}
          /\ voice \in IF k = "voice"
                        THEN { VoiceStress_init(a[1], a[2]) :
                                   a \in VoiceCtorArgs }
                        ELSE {Idle}
    /\ engine = Idle /\ ret = NoRet /\ inst_log = <<>> /\ nops = 0

NextProducers ==
    \/ app.alone = "facial" /\ NextFacial
    \/ app.alone = "pulse" /\ NextPulse
    \/ app.alone = "voice" /\ NextVoice

SpecProducers == InitProducers /\ [][NextProducers]_vars

\* C14, as stated: once a call of the pulse estimator or of the voice
\* analyser has returned an active result, no later call returns buffering
\* unless reset was called in between; and the call that follows a reset
\* is buffering again.
C14_BufferingOnlyAfterReset ==
    /\ \A i, j \in 1..Len(inst_log) :
           (i < j /\ inst_log[i] = "active" /\ inst_log[j] = "buffering") =>
               \E k \in (i + 1)..(j - 1) : inst_log[k] = "reset"
    /\ \A k \in 1..(Len(inst_log) - 1) :
           inst_log[k] = "reset" => inst_log[k + 1] \in {"buffering", "reset"}

\* C14, amended: once a call has returned an active result, no later call
\* returns buffering unless reset was called in between; reset empties the
\* buffer, and the call that follows a reset is buffering again if it finds
\* less than a window in the buffer (process_frame always does; analyze_audio
\* unless the capture thread has delivered a window in between).
C14_ActiveUntilReset ==
    /\ \A i, j \in 1..Len(inst_log) :
           (i < j /\ inst_log[i] = "active" /\ inst_log[j] = "buffering") =>
               \E k \in (i + 1)..(j - 1) : inst_log[k] = "reset"
    /\ (app.alone = "pulse" /\ ret.op = "reset") => pulse.signal_buffer = <<>>
    /\ (app.alone = "voice" /\ ret.op = "reset") => voice.audio_buffer = <<>>
    /\ \A k \in 1..(Len(inst_log) - 1) :
           (inst_log[k] = "reset" /\ inst_log[k + 1] = "active") =>
               /\ app.alone = "voice"
               /\ (k + 1 = Len(inst_log) /\ ret.op = "analyze_audio") =>
                      Len(ret.old.audio_buffer) >= ret.old.chunk_size

\* an active result, a reset, then buffering again
C14_Witness ==
    \E i, k, j \in 1..Len(inst_log) :
        /\ i < k /\ k < j
        /\ inst_log[i] = "active" /\ inst_log[k] = "reset"
        /\ inst_log[j] = "buffering"

\* C16: every stress score a producer returns lies in [0, 100]: the facial
\* composite of analyze_frame, the pulse stress of BPM_Estimator (in
\* process_frame's metrics and from get_stress_score) and the voice
\* composite of analyze_audio.
C16_ProducerScoresInRange ==
    /\ ret.op = "analyze_frame" => InUnit(ret.stress_score)
    /\ ret.op = "process_frame" =>
           InUnit(ret.stress_score) /\ InUnit(ret.get_stress_score)
    /\ app.alone = "pulse" => InUnit(BPM_Estimator_get_stress_score(pulse))
    /\ ret.op = "analyze_audio" => InUnit(ret.stress_score)
    /\ app.alone = "voice" => InUnit(voice.current_metrics.stress_score)

\* a frame whose blink term is held at 100 by the clamp
C16_Witness ==
    /\ ret.op = "analyze_frame" /\ ~ret.error
    /\ RLt(RInt(25), ret.blink_rate)
    /\ ret.blink_anomaly = RInt(100)
    /\ RLe(RInt(30), ret.stress_score)

(***************************************************************************)
(* The audio buffer under its two threads.  PyAudio calls _audio_callback  *)
(* on its own thread while the main thread is inside analyze_audio; the   *)
(* class takes no lock.  analyze_audio is taken step by step: the length   *)
(* check, then list(self.audio_buffer), which either runs without the      *)
(* capture thread getting in (ListWhole) or walks the deque's iterator     *)
(* element by element (ListBegin, ListNext) with appends in between; the   *)
(* iterator raises RuntimeError once the deque has changed under it.       *)
(* app holds the position of the main thread: pc, the elements copied so   *)
(* far, whether the deque changed since the iterator was made, and the     *)
(* contents the buffer has had since the call began.                       *)
(***************************************************************************)
MaxCaptureOps == 8

MainIdle == [pc |-> "idle", copy |-> <<>>, dirty |-> FALSE, seen |-> {}]

\* line 284: the length check
AnalyzeCheck ==
    /\ app.pc = "idle"
    /\ IF Len(voice.audio_buffer) < voice.chunk_size
       THEN \E r \in {analyze_audio(voice, SilentFeatures)} :
               /\ ret' = [op |-> "analyze_audio", raised |-> FALSE,
                          status |-> r.status, window |-> r.window,
                          instants |-> {voice.audio_buffer}]
               /\ app' = app
       ELSE /\ app' = [app EXCEPT !.pc = "list",
                                  !.seen = {voice.audio_buffer}]
            /\ ret' = [op |-> "check"]
    /\ nops' = nops + 1
    /\ UNCHANGED <<engine, facial, pulse, voice, inst_log>>

\* the rest of analyze_audio on the copied list
AnalyzeCopy(copy, feat, raised) ==
    \E r \in {analyze_chunk([voice EXCEPT !.audio_buffer = copy], feat)} :
        /\ voice' = IF raised THEN voice
                    ELSE [r.voice EXCEPT !.audio_buffer = voice.audio_buffer]
        /\ ret' = [op |-> "analyze_audio", raised |-> raised,
                   status |-> IF raised THEN "error" ELSE r.status,
                   window |-> IF raised THEN <<>> ELSE r.window,
                   instants |-> app.seen]
        /\ app' = MainIdle
        /\ nops' = nops + 1
        /\ UNCHANGED <<engine, facial, pulse, inst_log>>

\* line 289, list(self.audio_buffer) copied in one go
ListWhole(feat) ==
    /\ app.pc = "list"
    /\ AnalyzeCopy(voice.audio_buffer, feat, FALSE)

\* line 289, list(...) makes the deque's iterator
ListBegin ==
    /\ app.pc = "list"
    /\ app' = [app EXCEPT !.pc = "iter", !.copy = <<>>, !.dirty = FALSE]
    /\ ret' = [op |-> "iter"]
    /\ nops' = nops + 1
    /\ UNCHANGED <<engine, facial, pulse, voice, inst_log>>

\* one step of the iterator: RuntimeError if the deque has been changed,
\* the next element, or the end of the copy and the analysis of its tail
ListNext(feat) ==
    /\ app.pc = "iter"
    /\ IF app.dirty
       THEN AnalyzeCopy(voice.audio_buffer, feat, TRUE)
       ELSE IF Len(app.copy) < Len(voice.audio_buffer)
       THEN /\ app' = [app EXCEPT !.copy =
                           Append(app.copy,
                                  voice.audio_buffer[Len(app.copy) + 1])]
            /\ ret' = [op |-> "next"]
            /\ nops' = nops + 1
            /\ UNCHANGED <<engine, facial, pulse, voice, inst_log>>
       ELSE AnalyzeCopy(app.copy, feat, FALSE)

\* _audio_callback on the capture thread, at any point of the main thread
CaptureAppend(in_data) ==
    /\ voice.is_recording
    /\ voice' = audio_callback(voice, in_data)
    /\ app' = [app EXCEPT
                  !.dirty = (app.pc = "iter"),
                  !.seen = IF app.pc = "idle" THEN {}
                           ELSE app.seen \cup {voice'.audio_buffer}]
    /\ ret' = IF app.pc = "idle" THEN [op |-> "audio_callback"] ELSE ret
    /\ nops' = nops + 1
    /\ UNCHANGED <<engine, facial, pulse, inst_log>>

\* start_recording and reset are called by the main thread between calls
CaptureStart ==
    /\ app.pc = "idle" /\ ~voice.is_recording
    /\ voice' = start_recording(voice)
    /\ ret' = [op |-> "start_recording"]
    /\ nops' = nops + 1
    /\ UNCHANGED <<engine, facial, pulse, app, inst_log>>

CaptureReset ==
    /\ app.pc = "idle"
    /\ voice' = VoiceStress_reset(voice)
    /\ ret' = [op |-> "reset"]
    /\ nops' = nops + 1
    /\ UNCHANGED <<engine, facial, pulse, app, inst_log>>

InitCapture ==
    /\ voice \in { VoiceStress_init(a[1], a[2]) : a \in VoiceCtorArgs }
    /\ app = MainIdle
    /\ engine = Idle /\ facial = Idle /\ pulse = Idle
    /\ ret = NoRet /\ inst_log = <<>> /\ nops = 0

NextCapture ==
    /\ nops < MaxCaptureOps
    /\ \/ CaptureStart
       \/ \E c \in AudioChunks : CaptureAppend(c)
       \/ AnalyzeCheck
       \/ \E f \in VoiceFeatures : ListWhole(f)
       \/ ListBegin
       \/ \E f \in VoiceFeatures : ListNext(f)
       \/ CaptureReset

SpecCapture == InitCapture /\ [][NextCapture]_vars

MaxSession == 70

\* a reset may replace the call every ResetEvery-th time
ResetEvery == 16

\* the frame of step n: the eyes close on every third frame
SessionFace(n) ==
    [face |-> TRUE, eyebrow_dist |-> RInt(10 + (n % 3)),
     lip_dist |-> R(1, 2 + (n % 2)),
     avg_vertical |-> IF n % 3 = 0 THEN RInt(3) ELSE RInt(8)]

\* the spectral peak found at step n
SessionEstimate(n) ==
    IF n % 3 = 0 THEN RInt(0) ELSE IF n % 3 = 1 THEN RInt(95) ELSE RInt(180)

\* the features of the voiced windows of the session
SessionFeatures ==
    [pitch_mean |-> RInt(150), pitch_std |-> RInt(10), jitter |-> RInt(1),
     shimmer |-> RInt(1), energy |-> R(3, 10)]

SessionStep ==
    \/ app.alone = "facial" /\ AnalyzeFrame(SessionFace(nops))
    \/ app.alone = "pulse"
          /\ ProcessFrame(TRUE, RInt(128), SessionEstimate(nops))
    \/ app.alone = "voice" /\ nops = 0 /\ StartRecording(TRUE)
    \/ app.alone = "voice" /\ nops % 2 = 1 /\ AudioCallback(<<1>>)
    \/ app.alone = "voice" /\ nops > 0 /\ nops % 2 = 0
          /\ AnalyzeAudio(SessionFeatures)
    \/ app.alone = "engine"
          /\ Analyze(RInt(30 + (nops % 2)), RInt(25), RInt(20))

SessionReset ==
    /\ nops % ResetEvery = ResetEvery - 1
    /\ \/ app.alone = "facial" /\ FacialReset
       \/ app.alone = "pulse" /\ PulseReset
       \/ app.alone = "voice" /\ VoiceReset
       \/ app.alone = "engine" /\ EngineReset

InitSession ==
    /\ \E k \in {"facial", "pulse", "voice", "engine"} :
          /\ app = Alone(k)
          /\ facial \in IF k = "facial"
                         THEN { FacialAnalysis_init(a[1], a[2]) :
                                    a \in FacialCtorArgs }
                         ELSE {Idle}
          /\ pulse \in IF k = "pulse"
                        THEN { BPM_Estimator_init(a[1], a[2]) :
                                   a \in PulseCtorArgs }
                        ELSE {Idle}
          /\ voice \in IF k = "voice"
                        THEN { VoiceStress_init(a[1], a[2]) :
                                   a \in VoiceCtorArgs }
                        ELSE {Idle}
          /\ engine = IF k = "engine"
                      THEN LogicEngine_init(R(2, 5), R(3, 10), R(3, 10))
                      ELSE Idle
    /\ ret = NoRet /\ inst_log = <<>> /\ nops = 0

NextSession ==
    /\ nops < MaxSession
    /\ \/ SessionStep
       \/ SessionReset

SpecSession == InitSession /\ [][NextSession]_vars

\* C15: no rolling window ever holds more than its capacity: the eyebrow
\* and lip windows at most window_size samples, the blink window at most 60,
\* the pulse signal buffer at most fps * buffer_seconds, the BPM history at
\* most 10, the audio buffer at most sample_rate * 5, each voice feature
\* history at most 30, the honesty history at most 10.
C15_WindowsWithinCapacity ==
    /\ app.alone = "facial" =>
           /\ Len(facial.eyebrow_distances) <= facial.window_size
           /\ Len(facial.lip_distances) <= facial.window_size
           /\ Len(facial.blink_history) <= 60
    /\ app.alone = "pulse" =>
           /\ \E a \in PulseCtorArgs :
                  /\ pulse.fps = a[1]
                  /\ pulse.buffer_size = a[1] * a[2]
                  /\ Len(pulse.signal_buffer) <= a[1] * a[2]
           /\ Len(pulse.bpm_history) <= 10
    /\ app.alone = "voice" =>
           /\ Len(voice.audio_buffer) <= voice.sample_rate * 5
           /\ Len(voice.pitch_history) <= 30
           /\ Len(voice.jitter_history) <= 30
           /\ Len(voice.shimmer_history) <= 30
           /\ Len(voice.energy_history) <= 30
    /\ app.alone = "engine" => Len(engine.honesty_history) <= 10

\* a frame analysed when the blink window (60) and the eyebrow window (30)
\* were already full
C15_Witness ==
    /\ app.alone = "facial" /\ ret.op = "analyze_frame" /\ ~ret.error
    /\ Len(ret.old.blink_history) = 60
    /\ Len(ret.old.eyebrow_distances) = 30
    /\ Len(facial.blink_history) = 60
    /\ Len(facial.eyebrow_distances) = 30

(***************************************************************************)
(* Filling up: the pulse estimator fed a face region on every frame,       *)
(* without end and never reset.  The run is infinite, so the calls are not *)
(* counted; the state space is finite because every container is bounded.  *)
(***************************************************************************)
FillProcessFrame(green, est) ==
    /\ app.alone = "pulse"
    /\ \E r \in {process_frame(pulse, TRUE, green, est)} :
           /\ pulse' = r.pulse
           /\ ret' = [op |-> "process_frame", status |-> r.status,
                      stress_score |-> r.stress_score]
    /\ UNCHANGED <<engine, facial, voice, app, inst_log, nops>>

InitFill ==
    /\ app = Alone("pulse")
    /\ pulse \in { BPM_Estimator_init(a[1], a[2]) : a \in PulseCtorArgs }
    /\ voice = Idle
    /\ engine = Idle /\ facial = Idle
    /\ ret = NoRet /\ inst_log = <<>> /\ nops = 0

\* the mean green value of the region differs from one frame to the next
NextFill ==
    \E green \in PpgSamples, est \in { RInt(0), RInt(95) } :
        /\ pulse.signal_buffer # <<>>
               => green # pulse.signal_buffer[Len(pulse.signal_buffer)]
        /\ FillProcessFrame(green, est)

\* the capture loop of the host calls process_frame on every frame it reads
SpecFill ==
    /\ InitFill /\ [][NextFill]_vars
    /\ WF_vars(NextFill)

\* C27: for every configured buffer duration, a pulse estimator that keeps
\* receiving face regions and is not reset eventually leaves Buffering and
\* returns an active result.
C27_EventuallyActive ==
    <>( /\ ret.op = "process_frame"
        /\ ret.status = "active" )

(***************************************************************************)
(* A steady face: the facial analyser (default window) fed a face whose    *)
(* eyebrow and lip measurements never change and whose eyes close at most  *)
(* once in the run, for as many frames as the closure is held.  At 30      *)
(* frames per second a person blinking 10 to 25 times a minute blinks      *)
(* once every 72 to 180 frames, so every run here is a stretch of normal   *)
(* blinking, and the run is long enough for the 60-flag window to roll.    *)
(***************************************************************************)
MaxBlinkFrames == 62

SteadyFace(closed) ==
    [face |-> TRUE, eyebrow_dist |-> RInt(10), lip_dist |-> R(1, 2),
     avg_vertical |-> IF closed THEN RInt(3) ELSE RInt(8)]

InitBlink ==
    /\ app = Alone("facial")
    /\ facial = FacialAnalysis_init(30, RInt(2))
    /\ engine = Idle /\ pulse = Idle /\ voice = Idle
    /\ ret = NoRet /\ inst_log = <<>> /\ nops = 0

NextBlink ==
    /\ nops < MaxBlinkFrames
    /\ \E closed \in BOOLEAN :
          /\ closed => (facial.blink_count = 0 \/ facial.last_blink_state)
          /\ AnalyzeFrame(SteadyFace(closed))

SpecBlink == InitBlink /\ [][NextBlink]_vars

\* C28: a face with unchanging eyebrow and lip measurements and normal
\* blinking gets facial stress score 0: its blink rate is found in
\* [10, 25] per minute and its blink anomaly is 0.
C28_NormalBlinkingScoresZero ==
    (ret.op = "analyze_frame" /\ ret.face)
        => /\ ret.blink_anomaly = RInt(0)
           /\ ret.stress_score = RInt(0)

(***************************************************************************)
(* The hosts: LieDar (main.py) and LieDarGUI (main_gui.py)                 *)
(***************************************************************************)
\* the objects a host holds
Sys(fa, pu, vo, en) == [facial |-> fa, pulse |-> pu, voice |-> vo, engine |-> en]

\* LieDar.__init__ for a camera of `fps` frames per second; facial_ok: whether
\* FacialAnalysis could be constructed.  current_results starts at the
\* neutral honesty 50.
LieDar_init(fps, sample_rate, facial_ok) ==
    [sys |-> Sys(IF facial_ok THEN FacialAnalysis_init(30, RInt(2)) ELSE NoObject,
                 BPM_Estimator_init(fps, 10),
                 VoiceStress_init(sample_rate, RInt(1)),
                 IF facial_ok
                 THEN LogicEngine_init(W(400), W(300), W(300))
                 ELSE LogicEngine_init(W(0), W(600), W(400))),
     app |-> [kind |-> "cli", has_facial |-> facial_ok, phase |-> "built",
              honesty_score |-> RInt(50), alert_level |-> "medium_stress",
              facial_raw |-> RInt(0), voice_raw |-> RInt(0),
              pulse_raw |-> RInt(0), bpm |-> RInt(0)]]

\* LieDarGUI.__init__: voice and engine only; recording and the timer are
\* started by the constructor (stream_ok: whether the audio stream opened)
LieDarGUI_init(sample_rate, stream_ok) ==
    [sys |-> Sys(NoObject, NoObject,
                 LET v == VoiceStress_init(sample_rate, RInt(1))
                 IN  IF stream_ok THEN start_recording(v) ELSE v,
                 LogicEngine_init(W(0), W(600), W(400))),
     app |-> [kind |-> "gui", has_facial |-> FALSE, phase |-> "running",
              honesty_score |-> RInt(50), alert_level |-> "medium_stress",
              facial_raw |-> RInt(0), voice_raw |-> RInt(0),
              pulse_raw |-> RInt(0), bpm |-> RInt(75)]]

\* LieDar.reset: the four resets in order; with no facial analyser the
\* first call is made on None and raises AttributeError before any reset
LieDar_reset(sy) ==
    IF ~sy.facial.present
    THEN [sys |-> sy, raised |-> TRUE]
    ELSE [sys |-> Sys(FacialAnalysis_reset(sy.facial),
                      BPM_Estimator_reset(sy.pulse),
                      VoiceStress_reset(sy.voice),
                      LogicEngine_reset(sy.engine)),
          raised |-> FALSE]

\* LieDarGUI.reset: the voice analyser is reset and the displayed honesty
\* set to 50
LieDarGUI_reset(sy, ap) ==
    [sys |-> [sy EXCEPT !.voice = VoiceStress_reset(sy.voice)],
     app |-> [ap EXCEPT !.honesty_score = RInt(50)]]

\* LieDar.cleanup, as far as the analysers go
cleanup(sy) == [sy EXCEPT !.voice = stop_recording(sy.voice)]

\* Steps 1-4 of an iteration of LieDar._main_loop: the three analysers, the
\* fusion and current_results.  in: what the landmark model (or, without
\* it, the Haar cascade) finds in the frame (lm), the forehead region and
\* its signal (roi, ppg, est) and the voice features (feat).
main_loop_fuse(sy, ap, in) ==
    LET fr == IF ap.has_facial /\ sy.facial.present
              THEN analyze_frame(sy.facial, in.lm)
              ELSE [facial |-> sy.facial, stress_score |-> RInt(0)]
        pr == IF ap.has_facial
              THEN IF in.lm.face
                   THEN LET r == process_frame(sy.pulse, in.roi, in.ppg, in.est)
                        IN  [pulse |-> r.pulse, bpm |-> r.bpm,
                             stress |-> BPM_Estimator_get_stress_score(r.pulse),
                             status |-> r.status]
                   ELSE [pulse |-> sy.pulse, bpm |-> RInt(0), stress |-> RInt(0),
                         status |-> "none"]
              ELSE IF in.lm.face
                   THEN [pulse |-> sy.pulse, bpm |-> RInt(75), stress |-> RInt(10),
                         status |-> "none"]
                   ELSE [pulse |-> sy.pulse, bpm |-> RInt(0), stress |-> RInt(0),
                         status |-> "none"]
        vr == analyze_audio(sy.voice, in.feat)
        res == analyze(sy.engine, fr.stress_score, vr.stress_score, pr.stress)
    IN  [sys |-> Sys(fr.facial, pr.pulse, vr.voice, res.engine),
         app |-> [ap EXCEPT !.honesty_score = res.honesty_score,
                            !.alert_level = res.alert_level,
                            !.facial_raw = res.facial_raw,
                            !.voice_raw = res.voice_raw,
                            !.pulse_raw = res.pulse_raw,
                            !.bpm = pr.bpm],
         voice_status |-> vr.status, pulse_status |-> pr.status]

\* the key handling that ends an iteration ('q' quits, 'r' resets; an
\* exception raised by reset() is caught by the loop's except)
main_loop_key(st, key) ==
    IF key = "q"
    THEN [sys |-> cleanup(st.sys), app |-> [st.app EXCEPT !.phase = "ended"],
          fused |-> TRUE, reset_raised |-> FALSE,
          voice_status |-> st.voice_status, pulse_status |-> st.pulse_status]
    ELSE IF key = "r"
    THEN LET rr == LieDar_reset(st.sys)
         IN  [sys |-> rr.sys, app |-> st.app, fused |-> TRUE,
              reset_raised |-> rr.raised,
              voice_status |-> st.voice_status,
              pulse_status |-> st.pulse_status]
    ELSE [sys |-> st.sys, app |-> st.app, fused |-> TRUE, reset_raised |-> FALSE,
          voice_status |-> st.voice_status, pulse_status |-> st.pulse_status]

\* One iteration of LieDar._main_loop.  in: the frame read (frame_ok), the
\* inputs of the analysis and the key pressed (key).
main_loop_step(sy, ap, in) ==
    IF ~in.frame_ok
    THEN [sys |-> cleanup(sy), app |-> [ap EXCEPT !.phase = "ended"],
          fused |-> FALSE, reset_raised |-> FALSE,
          voice_status |-> "none", pulse_status |-> "none"]
    ELSE main_loop_key(main_loop_fuse(sy, ap, in), in.key)

\* LieDarGUI.update_frame (the timer's handler)
update_frame(sy, ap, in) ==
    IF ~in.frame_ok
    THEN [sys |-> sy, app |-> ap, fused |-> FALSE, voice_status |-> "none"]
    ELSE
      LET vr == analyze_audio(sy.voice, in.feat)
          pulse_stress == IF in.lm.face THEN RInt(10) ELSE RInt(0)
          res == analyze(sy.engine, RInt(0), vr.stress_score, pulse_stress)
      IN  [sys |-> [sy EXCEPT !.voice = vr.voice, !.engine = res.engine],
           app |-> [ap EXCEPT !.honesty_score = res.honesty_score,
                              !.alert_level = res.alert_level,
                              !.voice_raw = vr.stress_score,
                              !.pulse_raw = pulse_stress,
                              !.bpm = IF in.lm.face THEN RInt(75) ELSE RInt(0)],
           fused |-> TRUE, voice_status |-> vr.status]

(***************************************************************************)
(* The whole system: a host, its analysers, the audio capture thread       *)
(***************************************************************************)
MaxSysOps == 4

\* frame rate and audio sample rate of the modelled devices (the program
\* runs 30 frames and 16000 samples per second; one analysis window is
\* sample_rate * 1.0 samples)
SysFps == 1

SysSampleRate == 2

Keys == { "none", "r", "q" }

\* update_weights calls made on the host's engine
SysUpdateArgs == { <<W(0), None, None>>, <<None, W(1000), None>> }

CurSys == Sys(facial, pulse, voice, engine)

\* the inputs a step can meet: only those the step reads are varied
StepInputs ==
    { [frame_ok |-> TRUE, lm |-> lm, roi |-> roi, ppg |-> RInt(128),
       est |-> est, feat |-> feat, key |-> "none"] :
        lm \in FaceInputs, roi \in BOOLEAN, est \in BpmEstimates,
        feat \in VoiceFeatures \cup {SilentFeatures} }

\* the inputs that differ in something the step reads in this state
Relevant(i) ==
    /\ (~(i.lm.face /\ app.has_facial)) => i.roi
    /\ ( \/ ~(i.lm.face /\ app.has_facial /\ i.roi)
         \/ ~pulse.present
         \/ Len(pulse.signal_buffer) + 1 < pulse.fps * MinBufferSeconds )
       => i.est = RInt(0)
    /\ IF /\ Len(voice.audio_buffer) >= voice.chunk_size
          /\ ~IsSilent(LastN(voice.audio_buffer, voice.chunk_size))
       THEN i.feat \in VoiceFeatures
       ELSE i.feat = SilentFeatures

Instantaneous(e, a) ==
    RSub(RInt(100), combined_stress(e, a.facial_raw, a.voice_raw, a.pulse_raw))

LieDarStart(stream_ok) ==
    /\ app.kind = "cli" /\ app.phase = "built"
    /\ voice' = IF stream_ok THEN start_recording(voice) ELSE voice
    /\ app' = [app EXCEPT !.phase = "running"]
    /\ ret' = [op |-> "start"]
    /\ UNCHANGED <<engine, facial, pulse, inst_log, nops>>

MainLoopStep(i, key) ==
    /\ app.kind = "cli" /\ app.phase = "running"
    /\ \E r \in {main_loop_step(CurSys, app, [i EXCEPT !.key = key])} :
           /\ facial' = r.sys.facial
           /\ pulse' = r.sys.pulse
           /\ voice' = r.sys.voice
           /\ engine' = r.sys.engine
           /\ app' = r.app
           /\ ret' = [op |-> "main_loop_step", key |-> key, fused |-> r.fused,
                      reset_called |-> (r.fused /\ key = "r"),
                      reset_raised |-> r.reset_raised,
                      honesty_score |-> r.app.honesty_score,
                      voice_status |-> r.voice_status,
                      pulse_status |-> r.pulse_status,
                      face |-> i.lm.face, roi |-> i.roi,
                      bpm_before |-> pulse.current_bpm,
                      weights |-> Weights(engine),
                      instant |-> Instantaneous(engine, r.app),
                      facial_raw |-> r.app.facial_raw,
                      voice_raw |-> r.app.voice_raw,
                      pulse_raw |-> r.app.pulse_raw]
           /\ inst_log' = IF ~r.fused THEN inst_log
                          ELSE IF key = "r" /\ ~r.reset_raised THEN <<>>
                          ELSE Append(inst_log, Instantaneous(engine, r.app))
    /\ nops' = nops + 1

CameraReadFails ==
    /\ app.kind = "cli" /\ app.phase = "running"
    /\ \E r \in {main_loop_step(CurSys, app, [frame_ok |-> FALSE])} :
           /\ voice' = r.sys.voice
           /\ app' = r.app
    /\ ret' = [op |-> "main_loop_step", key |-> "none", fused |-> FALSE,
               reset_called |-> FALSE, reset_raised |-> FALSE,
               honesty_score |-> app.honesty_score,
               voice_status |-> "none", pulse_status |-> "none",
               face |-> FALSE, roi |-> FALSE,
               bpm_before |-> pulse.current_bpm,
               weights |-> Weights(engine),
               instant |-> RInt(0), facial_raw |-> RInt(0),
               voice_raw |-> RInt(0), pulse_raw |-> RInt(0)]
    /\ nops' = nops + 1
    /\ UNCHANGED <<engine, facial, pulse, inst_log>>

GuiUpdateFrame(i) ==
    /\ app.kind = "gui" /\ app.phase = "running"
    /\ \E r \in {update_frame(CurSys, app, i)} :
           /\ voice' = r.sys.voice
           /\ engine' = r.sys.engine
           /\ app' = r.app
           /\ ret' = [op |-> "update_frame", fused |-> r.fused,
                      reset_called |-> FALSE, reset_raised |-> FALSE,
                      honesty_score |-> r.app.honesty_score,
                      voice_status |-> r.voice_status,
                      pulse_status |-> "none",
                      weights |-> Weights(engine),
                      instant |-> Instantaneous(engine, r.app),
                      facial_raw |-> RInt(0),
                      voice_raw |-> r.app.voice_raw,
                      pulse_raw |-> r.app.pulse_raw]
           /\ inst_log' = IF r.fused
                          THEN Append(inst_log, Instantaneous(engine, r.app))
                          ELSE inst_log
    /\ nops' = nops + 1
    /\ UNCHANGED <<facial, pulse>>

GuiReset ==
    /\ app.kind = "gui" /\ app.phase = "running"
    /\ \E r \in {LieDarGUI_reset(CurSys, app)} :
           /\ voice' = r.sys.voice
           /\ engine' = r.sys.engine
           /\ app' = r.app
    /\ ret' = [op |-> "gui_reset", fused |-> FALSE, reset_called |-> TRUE,
               reset_raised |-> FALSE, honesty_score |-> RInt(50)]
    /\ nops' = nops + 1
    /\ UNCHANGED <<facial, pulse, inst_log>>

InitSystem ==
    /\ \E h \in { LieDar_init(SysFps, SysSampleRate, TRUE),
                  LieDar_init(SysFps, SysSampleRate, FALSE),
                  LieDarGUI_init(SysSampleRate, TRUE) } :
          /\ facial = h.sys.facial /\ pulse = h.sys.pulse
          /\ voice = h.sys.voice /\ engine = h.sys.engine
          /\ app = h.app
    /\ ret = NoRet /\ inst_log = <<>> /\ nops = 0

NextSystem ==
    /\ nops < MaxSysOps
    /\ \/ \E ok \in BOOLEAN : LieDarStart(ok)
       \/ \E i \in StepInputs, key \in Keys : Relevant(i) /\ MainLoopStep(i, key)
       \/ CameraReadFails
       \/ \E i \in StepInputs : Relevant(i) /\ GuiUpdateFrame(i)
       \/ GuiReset
       \/ \E c \in AudioChunks : AudioCallback(c)
       \/ \E u \in SysUpdateArgs : UpdateWeights(u[1], u[2], u[3])

SpecSystem == InitSystem /\ [][NextSystem]_vars

\* the rolling histories of every analyser the host holds, and the engine's
HistoriesEmpty ==
    /\ facial.present =>
           /\ facial.eyebrow_distances = <<>>
           /\ facial.lip_distances = <<>>
           /\ facial.blink_history = <<>>
    /\ pulse.present =>
           /\ pulse.signal_buffer = <<>>
           /\ pulse.bpm_history = <<>>
    /\ voice.audio_buffer = <<>>
    /\ voice.pitch_history = <<>> /\ voice.jitter_history = <<>>
    /\ voice.shimmer_history = <<>> /\ voice.energy_history = <<>>
    /\ engine.honesty_history = <<>>

\* the host's reset has just been invoked (key 'r' in the main loop, or the
\* GUI's reset)
ResetJustCalled ==
    /\ ret.op \in {"main_loop_step", "gui_reset"}
    /\ ret.reset_called

\* C7: after the system reset (LieDar.reset or the GUI reset), with or
\* without a facial analyser, every rolling history is empty: the facial
\* windows, the pulse buffer and BPM history, the voice histories and audio
\* buffer, and the honesty smoothing history.
C7_ResetEmptiesEveryHistory == ResetJustCalled => HistoriesEmpty

\* C8: the reported honesty score is 50 whenever no fused sample exists
\* (the smoothing history is empty): before the first tick, and after a
\* reset until the next tick.
C8_NeutralWithoutSample ==
    engine.honesty_history = <<>> => app.honesty_score = RInt(50)

\* C9: LogicEngine.reset, the system-level resets and analyze (alone or
\* inside a host's tick) leave the three weights as they were.
C9_WeightsPersist ==
    [][ ret'.op \in {"reset", "analyze", "main_loop_step", "update_frame",
                     "gui_reset"}
        => Weights(engine') = Weights(engine) ]_vars

\* a completed reset of an engine whose weights were changed by
\* update_weights: the history is gone, the changed weights are still there
C9_Witness ==
    /\ ResetJustCalled /\ ~ret.reset_raised
    /\ app.kind = "cli"
    /\ engine.honesty_history = <<>>
    /\ Weights(engine) # <<R(2, 5), R(3, 10), R(3, 10)>>

\* C26: reset is idempotent and total.  Each component's reset applied to
\* a reset component changes nothing, and neither does it on a freshly
\* constructed one; the host's reset never fails, and calling it again
\* right after it has been called leaves the state as it is.
C26_ResetIdempotentAndTotal ==
    /\ facial.present =>
           /\ FacialAnalysis_reset(FacialAnalysis_reset(facial))
                  = FacialAnalysis_reset(facial)
           /\ ret = NoRet => FacialAnalysis_reset(facial) = facial
    /\ pulse.present =>
           /\ BPM_Estimator_reset(BPM_Estimator_reset(pulse))
                  = BPM_Estimator_reset(pulse)
           /\ ret = NoRet => BPM_Estimator_reset(pulse) = pulse
    /\ VoiceStress_reset(VoiceStress_reset(voice)) = VoiceStress_reset(voice)
    /\ ret = NoRet => VoiceStress_reset(voice) = voice
    /\ LogicEngine_reset(LogicEngine_reset(engine)) = LogicEngine_reset(engine)
    /\ ret = NoRet => LogicEngine_reset(engine) = engine
    /\ ResetJustCalled =>
           /\ ~ret.reset_raised
           /\ app.kind = "cli" =>
                  LieDar_reset(CurSys) = [sys |-> CurSys, raised |-> FALSE]
           /\ app.kind = "gui" =>
                  LieDarGUI_reset(CurSys, app) = [sys |-> CurSys, app |-> app]

(***************************************************************************)
(* The command-line host over a longer run of loop iterations, long enough *)
(* for the pulse estimator to leave its buffering phase                    *)
(***************************************************************************)
MaxTicks == 8

\* what an iteration finds: no face, or a face with or without a usable
\* forehead region; the spectral peak is absent or at 95 BPM
TickInputs ==
    { [frame_ok |-> TRUE, lm |-> lm, roi |-> roi, ppg |-> RInt(128),
       est |-> est, feat |-> SilentFeatures, key |-> "none"] :
        lm \in { NoFace,
                 [face |-> TRUE, eyebrow_dist |-> RInt(10),
                  lip_dist |-> R(1, 2), avg_vertical |-> RInt(8)] },
        roi \in BOOLEAN, est \in { RInt(0), RInt(95) } }

InitTicks ==
    /\ \E h \in { LieDar_init(SysFps, SysSampleRate, TRUE),
                  LieDar_init(SysFps, SysSampleRate, FALSE) } :
          /\ facial = h.sys.facial /\ pulse = h.sys.pulse
          /\ voice = h.sys.voice /\ engine = h.sys.engine
          /\ app = h.app
    /\ ret = NoRet /\ inst_log = <<>> /\ nops = 0

NextTicks ==
    /\ nops < MaxTicks
    /\ \/ LieDarStart(TRUE)
       \/ \E i \in TickInputs : Relevant(i) /\ MainLoopStep(i, "none")

SpecTicks == InitTicks /\ [][NextTicks]_vars

\* C22: on a loop iteration in which no face or no forehead region is found
\* while the pulse estimator holds a non-zero BPM, the iteration's result
\* record carries that BPM, and the pulse stress fed to the fusion is the
\* stress derived from it.
C22_LastKnownBpmReported ==
    ( /\ ret.op = "main_loop_step" /\ ret.fused
      /\ app.has_facial
      /\ ~(ret.face /\ ret.roi)
      /\ ~RIsZero(ret.bpm_before) )
    => /\ app.bpm = ret.bpm_before
       /\ ret.pulse_raw = PulseStressOf(ret.bpm_before)

\* C20: on a tick on which the voice analyser or the pulse estimator
\* returned the buffering status, the placeholder 0 of that modality does
\* not enter the honesty score as a measured zero: whenever that would
\* show (the modality has a positive weight and the other two bring some
\* weighted stress), the honesty computed on the tick differs from
\* 100 - (w_f*facial + w_v*voice + w_p*pulse) taken with the placeholder 0.
C20_PlaceholderNotFused ==
    (ret.op \in {"main_loop_step", "update_frame"} /\ ret.fused) =>
        /\ ( /\ ret.voice_status = "buffering"
              /\ RLt(RInt(0), ret.weights[2])
              /\ RLt(RInt(0),
                     RAdd(RMul(ret.weights[1],
                               clip(ret.facial_raw, RInt(0), RInt(100))),
                          RMul(ret.weights[3],
                               clip(ret.pulse_raw, RInt(0), RInt(100))))) )
            => ret.instant #
                 RSub(RInt(100),
                      RAdd(RMul(ret.weights[1],
                                clip(ret.facial_raw, RInt(0), RInt(100))),
                           RMul(ret.weights[3],
                                clip(ret.pulse_raw, RInt(0), RInt(100)))))
        /\ ( /\ ret.pulse_status = "buffering"
              /\ RLt(RInt(0), ret.weights[3])
              /\ RLt(RInt(0),
                     RAdd(RMul(ret.weights[1],
                               clip(ret.facial_raw, RInt(0), RInt(100))),
                          RMul(ret.weights[2],
                               clip(ret.voice_raw, RInt(0), RInt(100))))) )
            => ret.instant #
                 RSub(RInt(100),
                      RAdd(RMul(ret.weights[1],
                                clip(ret.facial_raw, RInt(0), RInt(100))),
                           RMul(ret.weights[2],
                                clip(ret.voice_raw, RInt(0), RInt(100)))))

====
